---- MODULE Spec2Model ----
(***************************************************************************)
(* Stock ledger of src/app.py: ingredients with a stock, products with a   *)
(* recipe, entries (registrar_entrada_inventario) and sales                *)
(* (registrar_salida_por_venta) that adjust the stock through              *)
(* _actualizar_stock_ingrediente_db inside one database transaction each.  *)
(* The ingredient and product create, update and delete routes write the   *)
(* rows the ledger reads; every route takes its connection from the pool   *)
(* through get_db_connection.                                              *)
(*                                                                         *)
(* Quantities are integers counting ten-thousandths (1 = 0.0001), so that  *)
(* a quantity with a fourth fractional digit is representable; a stored    *)
(* stock is a multiple of Milli (0.001).                                   *)
(*                                                                         *)
(* The database is Oracle in READ COMMITTED mode: a transaction sees the   *)
(* committed rows plus its own writes, SELECT ... FOR UPDATE and UPDATE    *)
(* take the row lock and wait while another transaction holds it, and a    *)
(* connection released to the pool with an open transaction is rolled      *)
(* back.                                                                   *)
(***************************************************************************)
EXTENDS Integers, Sequences, FiniteSets, TLC

VARIABLES
    ingredientes,   \* ids of the rows of SGIC_INGREDIENTES (committed)
    stock,          \* stock_actual of each ingredient row (committed)
    stockInicial,   \* history: stock_actual each ingredient row was created with
    productos,      \* ids of the rows of SGIC_PRODUCTOS
    precio,         \* precio_venta of each product, in cents
    receta,         \* rows of SGIC_PRODUCTO_INGREDIENTES of each product
    versiones,      \* history: the <<price, recipe lines>> each product has had
                    \* in a committed state
    seqProd,        \* last id_producto the identity column handed out
    movs,           \* committed rows of SGIC_MOVIMIENTOS_INVENTARIO, in commit order
    ventas,         \* committed rows of SGIC_VENTAS, in commit order
    seqVenta,       \* last id_venta the sequence handed out
    seqIng,         \* last id_ingrediente the sequence handed out
    pc,             \* per request: where its handler stands
    op,             \* per request: the operation and its parsed arguments
    resultado,      \* per request: the outcome of the finished handler
    respuesta,      \* per request: HTTP status, error detail, returned stock and
                    \* validation errors of the response
    espera,         \* per request: time units it has spent blocked on a row lock
    conexiones,     \* per request: pool connections acquired and released
    txStock,        \* per request: uncommitted stock_actual writes (rows it locks)
    txMovs,         \* per request: uncommitted movement rows
    txVentas,       \* per request: uncommitted sale row (at most one)
    txProd,         \* per request: uncommitted product update (at most one): its
                    \* body and the recipe rows its DELETE removed
    leidas,         \* per request: ingredientes_receta as fetched by the sale
    hechas,         \* per request: recipe lines the sale loop has adjusted
    inicio,         \* history: the request's number, the requests in flight and the
                    \* committed stock and log length when the request began
    iniciadas       \* number of requests begun so far

vars == <<ingredientes, stock, stockInicial, productos, precio, receta,
          versiones, seqProd, movs, ventas, seqVenta, seqIng, pc, op, resultado,
          respuesta, espera, conexiones, txStock, txMovs, txVentas, txProd,
          leidas, hechas, inicio, iniciadas>>

dbVars == <<ingredientes, stock, stockInicial, movs, ventas>>
catVars == <<productos, precio, receta, versiones, seqProd, txProd>>
\* What a handler leaves alone until it returns.
resVars == <<resultado, respuesta, espera>>

----------------------------------------------------------------------------
(* Bounds of the model *)

\* Requests begun in one behaviour.
MaxOps == 2

\* Concurrent workers (requests in flight at once).
Req == {1, 2}

IngIds == {1, 2, 3}
ProdIds == {1, 2, 3, 4}

\* Bodies a client may send to /api/inventario/salida_venta_producto, as
\* <<id_producto, cantidad_vendida>>: a quantity that is not positive, one and
\* two units of the two-line recipe, the one-line recipe, one and two units
\* of the empty recipe, and a product that may not exist.
PeticionesVenta ==
    {<<1, 0>>, <<1, 1>>, <<1, 2>>, <<2, 1>>, <<3, 1>>, <<3, 2>>, <<4, 1>>}

\* Bodies a client may send to /api/inventario/entrada, as
\* <<id_ingrediente, cantidad, tipo_movimiento>>: quantities 0, 0.0004,
\* 0.0005 and 0.001, a caller-supplied kind, and an ingredient that may not
\* exist.
PeticionesEntrada ==
    {<<1, 0, "ENTRADA_COMPRA">>, <<1, 4, "ENTRADA_COMPRA">>,
     <<1, 5, "ENTRADA_COMPRA">>, <<1, 10, "ENTRADA_COMPRA">>,
     <<2, 10, "AJUSTE">>, <<3, 10, "ENTRADA_COMPRA">>}

\* One more body of /api/inventario/entrada: the caller names the kind the
\* sales use.
PeticionesEntradaConTipo == {<<2, 10, "SALIDA_VENTA">>}

\* stock_actual a client may send to create an ingredient: -0.0005 (negative
\* and with a fourth fractional digit), 0.0005, 0.002.
StocksCrear == {-5, 5, 20}

\* Bodies a client may send to PUT /api/ingredientes/<id>, as
\* <<id_ingrediente, stock_actual>>.
PeticionesActualizar == {<<1, -5>>, <<1, 5>>, <<1, 20>>, <<2, 0>>, <<3, 20>>}

Nulo == 0

----------------------------------------------------------------------------
(* Quantity arithmetic *)

\* Decimal('0.001'), the quantum of quantize(), in ten-thousandths.
Milli == 10

Abs(x) == IF x < 0 THEN -x ELSE x

\* x.quantize(Decimal('0.001'), rounding=ROUND_HALF_UP): ties away from zero.
Redondear(x) ==
    IF x >= 0 THEN ((x + Milli \div 2) \div Milli) * Milli
    ELSE -((((-x) + Milli \div 2) \div Milli) * Milli)

\* value.as_tuple().exponent < -3: more than 3 fractional digits.
ExcedePrecision(x) == x % Milli /= 0

\* Decimal('9999999.999') of validate_ingrediente_data, scaled down: the real
\* value in ten-thousandths does not fit TLC's 32-bit integers.  Only the
\* create/update validators compare against it.
StockMaximo == 40

----------------------------------------------------------------------------
(* Validation (pure) *)

\* Mutant: a validator that stops at the first violation it finds.
validate_ingrediente_data_primera(v) ==
    IF v < 0 THEN {"no puede ser negativo"}
    ELSE IF ExcedePrecision(v) THEN {"excede la precision decimal"}
    ELSE IF v > StockMaximo THEN {"excede el valor maximo"}
    ELSE {}

\* The stock_actual part of validate_ingrediente_data: every violation of the
\* value, as the set of error messages appended to `errors`.
validate_ingrediente_data(v) ==
    (IF v < 0 THEN {"no puede ser negativo"} ELSE {})
    \cup (IF ExcedePrecision(v) THEN {"excede la precision decimal"} ELSE {})
    \cup (IF v > StockMaximo THEN {"excede el valor maximo"} ELSE {})

----------------------------------------------------------------------------
(* Transactions and row locks *)

\* Rows of SGIC_INGREDIENTES whose lock request r's open transaction holds:
\* the rows it has selected FOR UPDATE and written.
Bloqueadas(r) == DOMAIN txStock[r]

\* Mutant: a plain SELECT, which never waits for the row lock.
PuedeBloquearSinForUpdate(r, i) == TRUE

\* SELECT ... FOR UPDATE / UPDATE on row i returns for r only when no other
\* transaction holds the row lock.
PuedeBloquear(r, i) == \A r2 \in Req \ {r} : i \notin Bloqueadas(r2)

\* stock_actual of row i as r's transaction reads it once it has the lock:
\* its own uncommitted write if any, else the committed value.
StockVisto(r, i) == IF i \in Bloqueadas(r) THEN txStock[r][i] ELSE stock[i]

\* The orders in which a SELECT without ORDER BY may return the rows.
Permutaciones(s) ==
    LET n == Len(s)
        Biy == {f \in [1..n -> 1..n] : \A a, b \in 1..n : f[a] = f[b] => a = b}
    IN  {[k \in 1..n |-> s[f[k]]] : f \in Biy}

\* Mutant: the engine without its check of the new stock.
StockInsuficienteSinControl(nuevo) == FALSE

\* if nuevo_stock_decimal < 0: the adjustment is refused.
StockInsuficiente(nuevo) == nuevo < 0

\* An error message that carries no ingredient detail.
SinDetalle == [ing |-> Nulo, requiere |-> 0, disponible |-> 0]

\* Mutant: a message that reports the stock the adjustment would have left.
DetalleConStockNuevo(i, delta, leido) ==
    [ing |-> i, requiere |-> Abs(delta), disponible |-> leido + delta]

\* What the "Stock insuficiente" message names: the ingredient (its id and
\* the nombre of the same row), abs(cantidad_ajuste_decimal) and
\* stock_actual_decimal.
DetalleInsuficiente(i, delta, leido) ==
    [ing |-> i, requiere |-> Abs(delta), disponible |-> leido]

\* The stock adjustment engine, up to its two writes: what it raises, or the
\* stock it writes and the movement row it inserts.
actualizar_stock_ingrediente_db(r, i, delta, tipo, venta) ==
    LET leido == StockVisto(r, i)
        nuevo == Redondear(leido + delta)
    IN  IF i \notin ingredientes
        THEN [error |-> "no_encontrado", leido |-> 0, nuevo |-> 0, mov |-> <<>>,
              detalle |-> SinDetalle]
        ELSE IF StockInsuficiente(nuevo)
        THEN [error |-> "insuficiente", leido |-> leido, nuevo |-> leido, mov |-> <<>>,
              detalle |-> DetalleInsuficiente(i, delta, leido)]
        ELSE [error |-> "", leido |-> leido, nuevo |-> nuevo,
              mov |-> <<[ing |-> i, venta |-> venta, tipo |-> tipo,
                         cant |-> Abs(delta)]>>,
              detalle |-> SinDetalle]

\* Mutant: a commit that replaces the movement and sale rows by its own.
CommitSobrescribe(r) ==
    /\ stock' = [i \in IngIds |-> IF i \in Bloqueadas(r) THEN txStock[r][i] ELSE stock[i]]
    /\ movs' = txMovs[r]
    /\ ventas' = txVentas[r]
    /\ txStock' = [txStock EXCEPT ![r] = <<>>]
    /\ txMovs' = [txMovs EXCEPT ![r] = <<>>]
    /\ txVentas' = [txVentas EXCEPT ![r] = <<>>]
    /\ UNCHANGED <<ingredientes, stockInicial>>

\* connection.commit(): r's uncommitted writes become the committed rows and
\* its row locks are released.
Commit(r) ==
    /\ stock' = [i \in IngIds |-> IF i \in Bloqueadas(r) THEN txStock[r][i] ELSE stock[i]]
    /\ movs' = movs \o txMovs[r]
    /\ ventas' = ventas \o txVentas[r]
    /\ txStock' = [txStock EXCEPT ![r] = <<>>]
    /\ txMovs' = [txMovs EXCEPT ![r] = <<>>]
    /\ txVentas' = [txVentas EXCEPT ![r] = <<>>]
    /\ UNCHANGED <<ingredientes, stockInicial>>

\* Mutant: a rollback that lets the stock already written by the failed
\* transaction through (as if the engine had committed each adjustment).
RollbackParcial(r) ==
    /\ stock' = [i \in IngIds |-> IF i \in Bloqueadas(r) THEN txStock[r][i] ELSE stock[i]]
    /\ txStock' = [txStock EXCEPT ![r] = <<>>]
    /\ txMovs' = [txMovs EXCEPT ![r] = <<>>]
    /\ txVentas' = [txVentas EXCEPT ![r] = <<>>]
    /\ UNCHANGED <<ingredientes, stockInicial, movs, ventas>>

\* pool.release(connection) with an open transaction: its writes are
\* discarded and its row locks released.
Rollback(r) ==
    /\ txStock' = [txStock EXCEPT ![r] = <<>>]
    /\ txMovs' = [txMovs EXCEPT ![r] = <<>>]
    /\ txVentas' = [txVentas EXCEPT ![r] = <<>>]
    /\ UNCHANGED dbVars

\* The HTTP status each handler answers an outcome with.  The inventory
\* routes turn every ValueError into 400; the catalogue routes answer a
\* missing row with 404 and a created row with 201.
Estado(tipo, res) ==
    CASE res = "ok" ->
             IF tipo \in {"crear_ingrediente", "crear_producto"} THEN 201 ELSE 200
      [] res = "error_interno" -> 500
      [] res = "conflicto" -> 409
      [] res \in {"no_encontrado", "producto_no_encontrado"} ->
             IF tipo \in {"actualizar_ingrediente", "actualizar_producto",
                          "eliminar_ingrediente", "eliminar_producto"}
             THEN 404 ELSE 400
      [] OTHER -> 400

\* A response that carries no ingredient row.
SinStock == -1

\* A handler returns: its outcome, status and message are recorded.
Contesta(r, res, det, st, errors) ==
    LET o == IF pc[r] = "done" THEN op'[r] ELSE op[r]
    IN  /\ pc' = [pc EXCEPT ![r] = "done"]
        /\ resultado' = [resultado EXCEPT ![r] = res]
        /\ respuesta' = [respuesta EXCEPT ![r] =
               [status |-> Estado(o.tipo, res), detalle |-> det, stock |-> st,
                errores |-> errors]]
        /\ espera' = [espera EXCEPT ![r] = 0]

\* A handler returns a response without "detalles".
Responde(r, res, det, st) == Contesta(r, res, det, st, {})

\* A catalogue handler returns 400 with "detalles": errors.
Rechaza(r, errors) == Contesta(r, "invalido", SinDetalle, SinStock, errors)

\* A handler returns an outcome without ingredient detail.
Termina(r, res) == Responde(r, res, SinDetalle, SinStock)

\* pool.acquire() of get_db_connection.
ConexionAdquirida(c) == [c EXCEPT !.adq = @ + 1]

\* Mutant: a handler that keeps its connection.
ConexionNoLiberada(c) == c

\* pool.release(connection) in the finally of get_db_connection.
ConexionLiberada(c) == [c EXCEPT !.lib = @ + 1]

\* The connections of a request that has acquired none yet.
SinConexion == [adq |-> 0, lib |-> 0]

\* Request r's with-block is entered and left within the step.
UsaConexion(r) ==
    conexiones' = [conexiones EXCEPT ![r] =
                      ConexionLiberada(ConexionAdquirida(SinConexion))]

\* Request r returns before it asks the pool for a connection.
NoUsaConexion(r) == conexiones' = [conexiones EXCEPT ![r] = SinConexion]

\* Request r's with-block is entered and stays open after the step.
AbreConexion(r) ==
    conexiones' = [conexiones EXCEPT ![r] = ConexionAdquirida(SinConexion)]

\* Request r leaves its with-block.
CierraConexion(r) ==
    conexiones' = [conexiones EXCEPT ![r] = ConexionLiberada(conexiones[r])]

\* A request arrives at an idle worker.
Empieza(r, o) ==
    /\ pc[r] = "done"
    /\ iniciadas < MaxOps
    /\ iniciadas' = iniciadas + 1
    /\ op' = [op EXCEPT ![r] = o]
    /\ inicio' = [inicio EXCEPT ![r] =
           [num |-> iniciadas + 1,
            enVuelo |-> {inicio[x].num : x \in {y \in Req : pc[y] /= "done"}},
            stock |-> stock, nmovs |-> Len(movs)]]

Operacion(t, id, c, m, v) == [tipo |-> t, id |-> id, cant |-> c, mov |-> m, venta |-> v]

----------------------------------------------------------------------------
(* State after construction *)

\* A committed version of a product: its price and the set of its recipe
\* lines.
Version(pr, rec) == <<pr, {rec[k] : k \in DOMAIN rec}>>

\* The state after start-up with the ingredient rows 1..n.
Arranque(n) ==
    /\ ingredientes = 1..n
    /\ stock = (1 :> 30) @@ (2 :> 10) @@ (3 :> 0)
    /\ stockInicial = stock
    /\ productos = {1, 2, 3}
    /\ precio = (1 :> 250) @@ (2 :> 100) @@ (3 :> 50) @@ (4 :> 0)
    /\ receta = (1 :> <<[ing |-> 1, cant |-> 10], [ing |-> 2, cant |-> 10]>>)
                @@ (2 :> <<[ing |-> 1, cant |-> 20]>>)
                @@ (3 :> <<>>) @@ (4 :> <<>>)
    /\ versiones = [p \in ProdIds |->
                        IF p \in productos THEN {Version(precio[p], receta[p])} ELSE {}]
    /\ seqProd = 3
    /\ movs = <<>>
    /\ ventas = <<>>
    /\ seqVenta = 0
    /\ seqIng = n
    /\ pc = [r \in Req |-> "done"]
    /\ op = [r \in Req |-> Operacion("", Nulo, 0, "", Nulo)]
    /\ resultado = [r \in Req |-> ""]
    /\ respuesta = [r \in Req |-> [status |-> 0, detalle |-> SinDetalle,
                                     stock |-> SinStock, errores |-> {}]]
    /\ espera = [r \in Req |-> 0]
    /\ conexiones = [r \in Req |-> SinConexion]
    /\ txStock = [r \in Req |-> <<>>]
    /\ txMovs = [r \in Req |-> <<>>]
    /\ txVentas = [r \in Req |-> <<>>]
    /\ txProd = [r \in Req |-> <<>>]
    /\ leidas = [r \in Req |-> <<>>]
    /\ hechas = [r \in Req |-> 0]
    /\ inicio = [r \in Req |-> [num |-> 0, enVuelo |-> {}, stock |-> stock,
                                 nmovs |-> 0]]
    /\ iniciadas = 0

\* Two ingredients, both used by recipes.
Init == Arranque(2)

\* A third ingredient, with no stock and used by no recipe.
InitBorrado == Arranque(3)

----------------------------------------------------------------------------
(* POST /api/inventario/salida_venta_producto *)

\* Mutant: a total that forgets the units sold.
MontoTotalDeUnaUnidad(pr, u) == pr

\* monto_total_venta = precio_unitario_actual_db * cantidad_productos_vendidos.
MontoTotal(pr, u) == pr * u

\* Mutant: a sale that inserts and commits its sale row before it looks the
\* product up.
VentaInicioInsertaAntes(r, p, u) ==
    /\ Empieza(r, Operacion("venta", p, u, "", IF u > 0 THEN seqVenta + 1 ELSE Nulo))
    /\ leidas' = [leidas EXCEPT ![r] = <<>>]
    /\ hechas' = [hechas EXCEPT ![r] = 0]
    /\ IF u <= 0
       THEN /\ Termina(r, "invalido")
            /\ NoUsaConexion(r)
            /\ UNCHANGED <<seqVenta, txVentas, ventas>>
       ELSE IF p \notin productos
       THEN /\ Termina(r, "producto_no_encontrado")
            /\ UsaConexion(r)
            /\ seqVenta' = seqVenta + 1
            /\ ventas' = Append(ventas, [id |-> seqVenta + 1, prod |-> p, cant |-> u,
                                         precio |-> 0, monto |-> 0])
            /\ UNCHANGED txVentas
       ELSE /\ seqVenta' = seqVenta + 1
            /\ txVentas' = [txVentas EXCEPT ![r] =
                   <<[id |-> seqVenta + 1, prod |-> p, cant |-> u,
                      precio |-> precio[p], monto |-> MontoTotal(precio[p], u)]>>]
            /\ pc' = [pc EXCEPT ![r] = "receta"]
            /\ AbreConexion(r)
            /\ UNCHANGED <<resVars, ventas>>
    /\ UNCHANGED <<ingredientes, stock, stockInicial, movs, catVars, seqIng,
                   txStock, txMovs>>

\* Parse the body, read the product, insert the sale row.
VentaInicio(r, p, u) ==
    /\ Empieza(r, Operacion("venta", p, u, "",
                            IF u > 0 /\ p \in productos THEN seqVenta + 1 ELSE Nulo))
    /\ leidas' = [leidas EXCEPT ![r] = <<>>]
    /\ hechas' = [hechas EXCEPT ![r] = 0]
    /\ IF u <= 0
       THEN /\ Termina(r, "invalido")
            /\ NoUsaConexion(r)
            /\ UNCHANGED <<seqVenta, txVentas>>
       ELSE IF p \notin productos
       THEN /\ Termina(r, "producto_no_encontrado")
            /\ UsaConexion(r)
            /\ UNCHANGED <<seqVenta, txVentas>>
       ELSE /\ seqVenta' = seqVenta + 1
            /\ txVentas' = [txVentas EXCEPT ![r] =
                   <<[id |-> seqVenta + 1, prod |-> p, cant |-> u,
                      precio |-> precio[p], monto |-> MontoTotal(precio[p], u)]>>]
            /\ pc' = [pc EXCEPT ![r] = "receta"]
            /\ AbreConexion(r)
            /\ UNCHANGED resVars
    /\ UNCHANGED <<dbVars, catVars, seqIng, txStock, txMovs>>

\* Fetch the recipe rows of the product (no ORDER BY).
VentaReceta(r) ==
    /\ pc[r] = "receta"
    /\ \E filas \in Permutaciones(receta[op[r].id]) :
           leidas' = [leidas EXCEPT ![r] = filas]
    /\ pc' = [pc EXCEPT ![r] = "ajuste"]
    /\ UNCHANGED <<dbVars, catVars, seqVenta, seqIng, op, resVars, conexiones,
                   txStock, txMovs, txVentas, hechas, inicio, iniciadas>>

\* The recipe line the sale loop adjusts next.
LineaActual(r) == leidas[r][hechas[r] + 1]

\* Mutant: the quantity of one unit, whatever the units sold.
CantidadTotalDeUnaUnidad(linea, u) == linea.cant

\* cantidad_total_a_descontar of a recipe line for the units sold.
CantidadTotal(linea, u) == linea.cant * u

\* Mutant: an engine that commits each adjustment by itself.
VentaAjusteConCommit(r) ==
    /\ pc[r] = "ajuste"
    /\ hechas[r] < Len(leidas[r])
    /\ PuedeBloquear(r, LineaActual(r).ing)
    /\ LET i == LineaActual(r).ing
           res == actualizar_stock_ingrediente_db(
                      r, i, -CantidadTotal(LineaActual(r), op[r].cant),
                      "SALIDA_VENTA", op[r].venta)
       IN  IF res.error /= ""
           THEN /\ Rollback(r)
                /\ Responde(r, res.error, res.detalle, SinStock)
                /\ CierraConexion(r)
                /\ UNCHANGED hechas
           ELSE /\ stock' = [stock EXCEPT ![i] = res.nuevo]
                /\ movs' = movs \o res.mov
                /\ ventas' = ventas \o txVentas[r]
                /\ txVentas' = [txVentas EXCEPT ![r] = <<>>]
                /\ hechas' = [hechas EXCEPT ![r] = hechas[r] + 1]
                /\ UNCHANGED <<ingredientes, stockInicial, txStock, txMovs, pc,
                               resVars, conexiones>>
    /\ UNCHANGED <<catVars, seqVenta, seqIng, op, leidas, inicio, iniciadas>>

\* One pass of the loop over the recipe: adjust one ingredient.
VentaAjuste(r) ==
    /\ pc[r] = "ajuste"
    /\ hechas[r] < Len(leidas[r])
    /\ PuedeBloquear(r, LineaActual(r).ing)
    /\ LET i == LineaActual(r).ing
           res == actualizar_stock_ingrediente_db(
                      r, i, -CantidadTotal(LineaActual(r), op[r].cant),
                      "SALIDA_VENTA", op[r].venta)
       IN  IF res.error /= ""
           THEN /\ Rollback(r)
                /\ Responde(r, res.error, res.detalle, SinStock)
                /\ CierraConexion(r)
                /\ UNCHANGED hechas
           ELSE /\ txStock' = [txStock EXCEPT ![r] = (i :> res.nuevo) @@ txStock[r]]
                /\ txMovs' = [txMovs EXCEPT ![r] = txMovs[r] \o res.mov]
                /\ hechas' = [hechas EXCEPT ![r] = hechas[r] + 1]
                /\ UNCHANGED <<dbVars, txVentas, pc, resVars, conexiones>>
    /\ UNCHANGED <<catVars, seqVenta, seqIng, op, leidas, inicio, iniciadas>>

\* Mutant: a sale that refuses a product without recipe lines.
VentaCommitExigeReceta(r) ==
    /\ pc[r] = "ajuste"
    /\ hechas[r] = Len(leidas[r])
    /\ IF leidas[r] = <<>>
       THEN Rollback(r) /\ Termina(r, "invalido")
       ELSE Commit(r) /\ Termina(r, "ok")
    /\ CierraConexion(r)
    /\ UNCHANGED <<catVars, seqVenta, seqIng, op, leidas, hechas, inicio, iniciadas>>

\* The loop is over (or the recipe is empty): commit once.
VentaCommit(r) ==
    /\ pc[r] = "ajuste"
    /\ hechas[r] = Len(leidas[r])
    /\ Commit(r)
    /\ Termina(r, "ok")
    /\ CierraConexion(r)
    /\ UNCHANGED <<catVars, seqVenta, seqIng, op, leidas, hechas, inicio, iniciadas>>

\* r waits for a row lock.
Espera(r, i) ==
    /\ pc[r] = "ajuste"
    /\ hechas[r] < Len(leidas[r])
    /\ LineaActual(r).ing = i
    /\ ~PuedeBloquear(r, i)

\* Two sales each wait for a row the other has locked.
Interbloqueo(r1, r2) ==
    /\ r1 /= r2
    /\ \E i \in Bloqueadas(r2) : Espera(r1, i)
    /\ \E i \in Bloqueadas(r1) : Espera(r2, i)

\* Oracle breaks the deadlock: the waiting statement of one session fails
\* (ORA-00060), the handler's except branch answers 500 and the connection is
\* released, which rolls its transaction back.
VentaInterbloqueo(r) ==
    /\ \E r2 \in Req : Interbloqueo(r, r2)
    /\ Rollback(r)
    /\ Termina(r, "error_interno")
    /\ CierraConexion(r)
    /\ UNCHANGED <<catVars, seqVenta, seqIng, op, leidas, hechas, inicio, iniciadas>>

----------------------------------------------------------------------------
(* POST /api/inventario/entrada *)

\* Parse the body and run the engine on the ingredient.
EntradaAjuste(r, i, q, tipo) ==
    /\ Empieza(r, Operacion("entrada", i, q, tipo, Nulo))
    /\ \/ /\ q <= 0
          /\ Termina(r, "invalido")
          /\ NoUsaConexion(r)
          /\ UNCHANGED <<txStock, txMovs>>
       \/ /\ q > 0
          /\ PuedeBloquear(r, i)
          /\ LET res == actualizar_stock_ingrediente_db(r, i, q, tipo, Nulo)
             IN  IF res.error /= ""
                 THEN /\ Responde(r, res.error, res.detalle, SinStock)
                      /\ UsaConexion(r)
                      /\ UNCHANGED <<txStock, txMovs>>
                 ELSE /\ txStock' = [txStock EXCEPT ![r] = (i :> res.nuevo) @@ txStock[r]]
                      /\ txMovs' = [txMovs EXCEPT ![r] = txMovs[r] \o res.mov]
                      /\ pc' = [pc EXCEPT ![r] = "entrada_commit"]
                      /\ AbreConexion(r)
                      /\ UNCHANGED resVars
    /\ UNCHANGED <<dbVars, catVars, seqVenta, seqIng, txVentas, leidas, hechas>>

\* connection.commit() of the entry; its with-block ends.
EntradaCommit(r) ==
    /\ pc[r] = "entrada_commit"
    /\ Commit(r)
    /\ CierraConexion(r)
    /\ pc' = [pc EXCEPT ![r] = "entrada_releer"]
    /\ UNCHANGED <<catVars, seqVenta, seqIng, op, resVars, leidas, hechas, inicio,
                   iniciadas>>

\* The entry reads the ingredient row again on a second connection and
\* answers with it.
EntradaReleer(r) ==
    /\ pc[r] = "entrada_releer"
    /\ conexiones' = [conexiones EXCEPT ![r] =
                          ConexionLiberada(ConexionAdquirida(conexiones[r]))]
    /\ Responde(r, "ok", SinDetalle, stock[op[r].id])
    /\ UNCHANGED <<dbVars, catVars, seqVenta, seqIng, op, txStock, txMovs, txVentas,
                   leidas, hechas, inicio, iniciadas>>

----------------------------------------------------------------------------
(* POST and PUT /api/ingredientes *)

\* create_ingrediente with stock_actual = s.
CrearIngrediente(r, s) ==
    /\ seqIng + 1 \in IngIds
    /\ Empieza(r, Operacion("crear_ingrediente",
                            IF validate_ingrediente_data(s) = {} THEN seqIng + 1 ELSE Nulo,
                            s, "", Nulo))
    /\ IF validate_ingrediente_data(s) /= {}
       THEN /\ Rechaza(r, validate_ingrediente_data(s))
            /\ NoUsaConexion(r)
            /\ UNCHANGED <<ingredientes, stock, stockInicial, seqIng>>
       ELSE /\ seqIng' = seqIng + 1
            /\ ingredientes' = ingredientes \cup {seqIng + 1}
            /\ stock' = [stock EXCEPT ![seqIng + 1] = s]
            /\ stockInicial' = [stockInicial EXCEPT ![seqIng + 1] = s]
            /\ Termina(r, "ok")
            /\ UsaConexion(r)
    /\ UNCHANGED <<movs, ventas, catVars, seqVenta, txStock, txMovs, txVentas,
                   leidas, hechas>>

\* update_ingrediente with a body that carries stock_actual = s.
ActualizarIngrediente(r, i, s) ==
    /\ Empieza(r, Operacion("actualizar_ingrediente", i, s, "", Nulo))
    /\ \/ /\ validate_ingrediente_data(s) /= {}
          /\ Rechaza(r, validate_ingrediente_data(s))
          /\ NoUsaConexion(r)
          /\ UNCHANGED stock
       \/ /\ validate_ingrediente_data(s) = {}
          /\ i \notin ingredientes
          /\ Termina(r, "no_encontrado")
          /\ UsaConexion(r)
          /\ UNCHANGED stock
       \/ /\ validate_ingrediente_data(s) = {}
          /\ i \in ingredientes
          /\ PuedeBloquear(r, i)
          /\ stock' = [stock EXCEPT ![i] = s]
          /\ Termina(r, "ok")
          /\ UsaConexion(r)
    /\ UNCHANGED <<ingredientes, stockInicial, movs, ventas, catVars, seqVenta,
                   seqIng, txStock, txMovs, txVentas, leidas, hechas>>

----------------------------------------------------------------------------
(* POST and PUT /api/productos *)

\* Decimal('99999999.99') of validate_producto_data, in cents and scaled down
\* like StockMaximo.
PrecioMaximo == 500

\* Decimal('99999.999') of validate_producto_data, scaled down like
\* StockMaximo.
CantidadMaxima == 40

\* The body of a product request: whether it carries precio_venta and
\* 'ingredientes', and their values.
Cuerpo(id, conPrecio, pr, conReceta, rec) ==
    [id |-> id, conPrecio |-> conPrecio, precio |-> pr, conReceta |-> conReceta,
     receta |-> rec]

\* Bodies a client may send to PUT /api/productos/<id>: a new price with a
\* new recipe, a new price alone, a recipe on an ingredient that may not
\* exist, a product that may not exist, and a negative price.
PeticionesProducto ==
    {Cuerpo(2, TRUE, 150, TRUE, <<[ing |-> 2, cant |-> 10]>>),
     Cuerpo(2, TRUE, 120, FALSE, <<>>),
     Cuerpo(1, FALSE, 0, TRUE, <<[ing |-> 3, cant |-> 10]>>),
     Cuerpo(4, TRUE, 10, FALSE, <<>>),
     Cuerpo(2, TRUE, -5, FALSE, <<>>)}

\* More bodies of PUT /api/productos/<id>, all of them with 'ingredientes'
\* and without a price: one line each on the product whose recipe is empty,
\* and the empty list on a product that has a recipe.
PeticionesReceta ==
    {Cuerpo(3, FALSE, 0, TRUE, <<[ing |-> 1, cant |-> 10]>>),
     Cuerpo(3, FALSE, 0, TRUE, <<[ing |-> 2, cant |-> 10]>>),
     Cuerpo(2, FALSE, 0, TRUE, <<>>)}

\* Bodies a client may send to POST /api/productos: a valid product, one
\* whose recipe names an ingredient that may not exist, and one whose recipe
\* quantity is negative and has a fourth fractional digit.
PeticionesCrearProducto ==
    {Cuerpo(Nulo, TRUE, 80, TRUE, <<[ing |-> 1, cant |-> 10]>>),
     Cuerpo(Nulo, TRUE, 80, TRUE, <<[ing |-> 3, cant |-> 10]>>),
     Cuerpo(Nulo, TRUE, 80, TRUE, <<[ing |-> 1, cant |-> -5]>>)}

\* The precio_venta and 'ingredientes' parts of validate_producto_data: every
\* violation of the body, as the set of error messages appended to `errors`.
validate_producto_data(b) ==
    (IF b.conPrecio /\ b.precio < 0 THEN {"precio negativo"} ELSE {})
    \cup (IF b.conPrecio /\ b.precio > PrecioMaximo THEN {"precio maximo"} ELSE {})
    \cup UNION {(IF b.receta[k].cant <= 0 THEN {<<k, "debe ser positiva">>} ELSE {})
                \cup (IF ExcedePrecision(b.receta[k].cant)
                      THEN {<<k, "excede precision">>} ELSE {})
                \cup (IF b.receta[k].cant > CantidadMaxima
                      THEN {<<k, "excede el maximo">>} ELSE {})
                : k \in (IF b.conReceta THEN DOMAIN b.receta ELSE {})}

\* Mutant: the recipe lines are inserted without looking for the ingredient.
IngredientesSinComprobar(b) == {}

\* The recipe lines of the body whose ingredient row does not exist.
IngredientesQueFaltan(b) ==
    {k \in DOMAIN b.receta : b.conReceta /\ b.receta[k].ing \notin ingredientes}

\* create_producto: INSERT the product, then each recipe line after checking
\* its ingredient; a missing ingredient rolls everything back, but the
\* identity value stays used.
CrearProducto(r, b) ==
    /\ seqProd + 1 \in ProdIds
    /\ Empieza(r, Operacion("crear_producto",
                            IF validate_producto_data(b) = {} THEN seqProd + 1 ELSE Nulo,
                            b.precio, "", Nulo))
    /\ IF validate_producto_data(b) /= {}
       THEN /\ Rechaza(r, validate_producto_data(b))
            /\ NoUsaConexion(r)
            /\ UNCHANGED <<productos, precio, receta, versiones, seqProd>>
       ELSE IF IngredientesQueFaltan(b) /= {}
       THEN /\ Termina(r, "ingrediente_no_existe")
            /\ UsaConexion(r)
            /\ seqProd' = seqProd + 1
            /\ UNCHANGED <<productos, precio, receta, versiones>>
       ELSE /\ seqProd' = seqProd + 1
            /\ productos' = productos \cup {seqProd + 1}
            /\ precio' = [precio EXCEPT ![seqProd + 1] = b.precio]
            /\ receta' = [receta EXCEPT ![seqProd + 1] = b.receta]
            /\ versiones' = [versiones EXCEPT ![seqProd + 1] =
                                 {Version(b.precio, b.receta)}]
            /\ Termina(r, "ok")
            /\ UsaConexion(r)
    /\ UNCHANGED <<dbVars, seqVenta, seqIng, txStock, txMovs, txVentas, txProd,
                   leidas, hechas>>

\* Request q has an uncommitted update of product p.
ProductoAbierto(q, p) == txProd[q] /= <<>> /\ txProd[q][1].cuerpo.id = p

\* The ingredients the recipe lines of a body name.
IngredientesDe(b) == {b.receta[k].ing : k \in DOMAIN b.receta}

\* update_producto's UPDATE or DELETE has to wait: another transaction holds
\* the lock of the product row (both bodies carry a price) or of a recipe row
\* (the other has deleted the committed recipe).  Rows another transaction
\* has inserted and not committed are invisible to the DELETE and do not
\* block it.
EsperaProducto(r, b) ==
    \E q \in Req \ {r} :
        /\ ProductoAbierto(q, b.id)
        /\ \/ b.conPrecio /\ txProd[q][1].cuerpo.conPrecio
           \/ b.conReceta /\ txProd[q][1].borradas /= {}

\* An INSERT of the body meets the key (id_producto_fk, id_ingrediente_fk) of
\* a row another transaction has inserted and not committed: a recipe names
\* an ingredient once per product.
ClaveOcupada(r, b) ==
    /\ b.conReceta
    /\ \E q \in Req \ {r} :
           /\ ProductoAbierto(q, b.id)
           /\ txProd[q][1].cuerpo.conReceta
           /\ IngredientesDe(b) \cap IngredientesDe(txProd[q][1].cuerpo) /= {}

\* The uncommitted update of a body: the recipe rows its DELETE saw and
\* removed are the committed ones of that moment.
ProductoEscrito(b) ==
    <<[cuerpo |-> b,
       borradas |-> IF b.conReceta
                    THEN {receta[b.id][k] : k \in DOMAIN receta[b.id]} ELSE {}]>>

\* update_producto up to its commit: validation, the product's existence,
\* the UPDATE of the product row when the body carries a price, the DELETE of
\* the committed recipe and the INSERT of each line after checking its
\* ingredient when the body carries 'ingredientes'.  A missing ingredient
\* rolls everything back.
ActualizarProducto(r, b) ==
    /\ Empieza(r, Operacion("actualizar_producto", b.id, b.precio, "", Nulo))
    /\ IF validate_producto_data(b) /= {}
       THEN /\ Rechaza(r, validate_producto_data(b))
            /\ NoUsaConexion(r)
            /\ UNCHANGED txProd
       ELSE IF b.id \notin productos
       THEN /\ Termina(r, "producto_no_encontrado")
            /\ UsaConexion(r)
            /\ UNCHANGED txProd
       ELSE /\ ~EsperaProducto(r, b)
            /\ IF IngredientesQueFaltan(b) /= {}
               THEN /\ Termina(r, "ingrediente_no_existe")
                    /\ UsaConexion(r)
                    /\ UNCHANGED txProd
               ELSE /\ txProd' = [txProd EXCEPT ![r] = ProductoEscrito(b)]
                    /\ pc' = [pc EXCEPT ![r] =
                           IF ClaveOcupada(r, b) THEN "producto_clave"
                           ELSE "producto_commit"]
                    /\ AbreConexion(r)
                    /\ UNCHANGED resVars
    /\ UNCHANGED <<dbVars, productos, precio, receta, versiones, seqProd, seqVenta,
                   seqIng, txStock, txMovs, txVentas, leidas, hechas>>

\* The INSERT that waited for another transaction's key: that transaction has
\* committed the row, the INSERT fails on the key and `except Exception`
\* answers 500; the connection is released with the transaction rolled back.
ActualizarProductoClave(r) ==
    /\ pc[r] = "producto_clave"
    /\ ~ClaveOcupada(r, txProd[r][1].cuerpo)
    /\ txProd' = [txProd EXCEPT ![r] = <<>>]
    /\ Termina(r, "error_interno")
    /\ CierraConexion(r)
    /\ UNCHANGED <<dbVars, productos, precio, receta, versiones, seqProd, seqVenta,
                   seqIng, op, txStock, txMovs, txVentas, leidas, hechas, inicio,
                   iniciadas>>

\* The recipe rows of product p once a transaction commits: the committed
\* rows it did not delete, then the rows it inserted.
RecetaEscrita(p, w) ==
    IF w.cuerpo.conReceta
    THEN SelectSeq(receta[p], LAMBDA l : l \notin w.borradas) \o w.cuerpo.receta
    ELSE receta[p]

\* connection.commit() of update_producto: its writes become the committed
\* rows and its row locks are released.
ActualizarProductoCommit(r) ==
    /\ pc[r] = "producto_commit"
    /\ LET w == txProd[r][1]
           p == w.cuerpo.id
       IN  /\ precio' = IF w.cuerpo.conPrecio
                        THEN [precio EXCEPT ![p] = w.cuerpo.precio] ELSE precio
           /\ receta' = [receta EXCEPT ![p] = RecetaEscrita(p, w)]
           /\ versiones' = [versiones EXCEPT ![p] =
                                @ \cup {Version(precio'[p], receta'[p])}]
    /\ txProd' = [txProd EXCEPT ![r] = <<>>]
    /\ Termina(r, "ok")
    /\ CierraConexion(r)
    /\ UNCHANGED <<dbVars, productos, seqProd, seqVenta, seqIng, op, txStock, txMovs,
                   txVentas, leidas, hechas, inicio, iniciadas>>

----------------------------------------------------------------------------
(* DELETE /api/ingredientes/<id> and /api/productos/<id> *)

\* Ids a client may send to DELETE /api/ingredientes/<id>.
PeticionesEliminarIngrediente == {1, 3}

\* Ids a client may send to DELETE /api/productos/<id>.
PeticionesEliminarProducto == {1, 3, 4}

\* SELECT COUNT(*) FROM SGIC_PRODUCTO_INGREDIENTES WHERE id_ingrediente_fk = i
\* is positive.
EnReceta(i) ==
    \E p \in productos : \E k \in DOMAIN receta[p] : receta[p][k].ing = i

\* A committed movement row refers to ingredient i.
TieneMovimientos(i) == \E k \in DOMAIN movs : movs[k].ing = i

\* The DELETE of ingredient row i has to wait: another transaction holds the
\* row's lock or has inserted, and not committed, a recipe row that refers to
\* it.
EsperaIngrediente(r, i) ==
    \/ ~PuedeBloquear(r, i)
    \/ \E q \in Req \ {r} :
           /\ txProd[q] /= <<>>
           /\ txProd[q][1].cuerpo.conReceta
           /\ i \in IngredientesDe(txProd[q][1].cuerpo)

\* delete_ingrediente: 409 when a recipe uses the ingredient, 404 when the
\* DELETE finds no row, 409 when the DELETE fails on a movement that refers
\* to the row (IntegrityError), else the row is deleted and committed.
EliminarIngrediente(r, i) ==
    /\ Empieza(r, Operacion("eliminar_ingrediente", i, 0, "", Nulo))
    /\ IF EnReceta(i)
       THEN /\ Termina(r, "conflicto")
            /\ UNCHANGED <<ingredientes, stock, stockInicial>>
       ELSE IF i \notin ingredientes
       THEN /\ Termina(r, "no_encontrado")
            /\ UNCHANGED <<ingredientes, stock, stockInicial>>
       ELSE /\ ~EsperaIngrediente(r, i)
            /\ IF TieneMovimientos(i)
               THEN /\ Termina(r, "conflicto")
                    /\ UNCHANGED <<ingredientes, stock, stockInicial>>
               ELSE /\ ingredientes' = ingredientes \ {i}
                    /\ stock' = [stock EXCEPT ![i] = 0]
                    /\ stockInicial' = [stockInicial EXCEPT ![i] = 0]
                    /\ Termina(r, "ok")
    /\ UsaConexion(r)
    /\ UNCHANGED <<movs, ventas, catVars, seqVenta, seqIng, txStock, txMovs,
                   txVentas, leidas, hechas>>

\* Mutant: a product delete that never looks at the sales.
SinControlDeVentas(p) == FALSE

\* SELECT COUNT(*) FROM SGIC_VENTAS WHERE id_producto_fk = p is positive.
TieneVentas(p) == \E k \in DOMAIN ventas : ventas[k].prod = p

\* The DELETE of product row p has to wait: another transaction has updated
\* the row or written recipe rows of the product, or has inserted, and not
\* committed, a sale row that refers to it.
EsperaEliminarProducto(r, p) ==
    \E q \in Req \ {r} :
        \/ ProductoAbierto(q, p)
        \/ \E k \in DOMAIN txVentas[q] : txVentas[q][k].prod = p

\* delete_producto: 404 when the product does not exist, 409 when a sale
\* refers to it, else the row and (ON DELETE CASCADE) its recipe rows are
\* deleted and committed.
EliminarProducto(r, p) ==
    /\ Empieza(r, Operacion("eliminar_producto", p, 0, "", Nulo))
    /\ IF p \notin productos
       THEN /\ Termina(r, "producto_no_encontrado")
            /\ UNCHANGED <<productos, precio, receta>>
       ELSE IF TieneVentas(p)
       THEN /\ Termina(r, "conflicto")
            /\ UNCHANGED <<productos, precio, receta>>
       ELSE /\ ~EsperaEliminarProducto(r, p)
            /\ productos' = productos \ {p}
            /\ precio' = [precio EXCEPT ![p] = 0]
            /\ receta' = [receta EXCEPT ![p] = <<>>]
            /\ Termina(r, "ok")
    /\ UsaConexion(r)
    /\ UNCHANGED <<dbVars, versiones, seqProd, seqVenta, seqIng, txStock, txMovs,
                   txVentas, txProd, leidas, hechas>>

----------------------------------------------------------------------------
(* Waiting for a row lock *)

\* The bounded wait after which a blocked statement is to give up, in units
\* of time.
LimiteEspera == 1

\* A unit of time passes while r's SELECT ... FOR UPDATE is blocked: the
\* statement has no NOWAIT or WAIT clause and keeps waiting.
Tick(r) ==
    /\ \E i \in IngIds : Espera(r, i)
    /\ espera[r] <= LimiteEspera
    /\ espera' = [espera EXCEPT ![r] = espera[r] + 1]
    /\ UNCHANGED <<dbVars, catVars, seqVenta, seqIng, pc, op, resultado, respuesta,
                   conexiones, txStock, txMovs, txVentas, leidas, hechas, inicio,
                   iniciadas>>

----------------------------------------------------------------------------
(* Specifications *)

Venta(r) ==
    \/ \E v \in PeticionesVenta : VentaInicio(r, v[1], v[2])
    \/ VentaReceta(r)
    \/ VentaAjuste(r)
    \/ VentaCommit(r)
    \/ VentaInterbloqueo(r)

Entrada(r) ==
    \/ \E e \in PeticionesEntrada : EntradaAjuste(r, e[1], e[2], e[3])
    \/ EntradaCommit(r)
    \/ EntradaReleer(r)

\* Entries and sales only.
NextLibro == \E r \in Req : Venta(r) \/ Entrada(r)

SpecLibro == Init /\ [][NextLibro]_vars

\* Entries and sales with the time their blocked statements spend waiting.
NextEspera == \E r \in Req : Venta(r) \/ Entrada(r) \/ Tick(r)

SpecEspera == Init /\ [][NextEspera]_vars

\* Product updates, with more recipe bodies, and sales.
NextCatalogo ==
    \E r \in Req :
        \/ Venta(r)
        \/ \E b \in PeticionesProducto \cup PeticionesReceta : ActualizarProducto(r, b)
        \/ ActualizarProductoClave(r)
        \/ ActualizarProductoCommit(r)

SpecCatalogo == Init /\ [][NextCatalogo]_vars

\* Entries and sales, with one more kind of movement in the entries' bodies.
NextTipos ==
    \E r \in Req :
        \/ Venta(r)
        \/ \E e \in PeticionesEntrada \cup PeticionesEntradaConTipo :
               EntradaAjuste(r, e[1], e[2], e[3])
        \/ EntradaCommit(r)
        \/ EntradaReleer(r)

SpecTipos == Init /\ [][NextTipos]_vars

\* Entries, sales and the delete routes, from a state with an ingredient
\* that no recipe uses.
NextBorrado ==
    \E r \in Req :
        \/ Venta(r)
        \/ Entrada(r)
        \/ \E i \in PeticionesEliminarIngrediente : EliminarIngrediente(r, i)
        \/ \E p \in PeticionesEliminarProducto : EliminarProducto(r, p)

SpecBorrado == InitBorrado /\ [][NextBorrado]_vars

\* Entries, sales and the create and update routes.
Next ==
    \E r \in Req :
        \/ Venta(r)
        \/ Entrada(r)
        \/ \E s \in StocksCrear : CrearIngrediente(r, s)
        \/ \E a \in PeticionesActualizar : ActualizarIngrediente(r, a[1], a[2])
        \/ \E b \in PeticionesCrearProducto : CrearProducto(r, b)
        \/ \E b \in PeticionesProducto : ActualizarProducto(r, b)
        \/ ActualizarProductoCommit(r)

Spec == Init /\ [][Next]_vars

----------------------------------------------------------------------------
(* Helpers of the properties *)

RECURSIVE SumaCant(_)
\* Sum of the magnitudes of a sequence of movement rows.
SumaCant(s) == IF s = <<>> THEN 0 ELSE Head(s).cant + SumaCant(Tail(s))

\* Committed movements of ingredient i written by entries (no sale reference).
MovsEntrada(i) == SelectSeq(movs, LAMBDA m : m.ing = i /\ m.venta = Nulo)

\* Committed movements of ingredient i written by sales.
MovsVenta(i) == SelectSeq(movs, LAMBDA m : m.ing = i /\ m.venta /= Nulo)

\* Request r is a finished request of the given kind.
Hecha(r, tipo) == pc[r] = "done" /\ op[r].tipo = tipo

----------------------------------------------------------------------------
(* Properties *)

\* C1: for every ingredient, in every committed state reached by entries and
\* sales, the stock equals the initial stock plus the magnitudes of its entry
\* movements minus the magnitudes of its sale movements.
C1_StockEsInicialMasMovimientos ==
    \A i \in ingredientes :
        stock[i] = stockInicial[i] + SumaCant(MovsEntrada(i)) - SumaCant(MovsVenta(i))

\* C2: in every committed state reached by ingredient create/update, entries
\* and sales, the stock of every ingredient is at least zero.
C2_StockNuncaNegativo == \A i \in ingredientes : stock[i] >= 0

\* A sale has been refused for insufficient stock, a sale has committed, and
\* an ingredient stands at zero.
C2_Testigo ==
    /\ \E i \in ingredientes : stock[i] = 0
    /\ \E r \in Req : Hecha(r, "venta") /\ resultado[r] = "insuficiente"
    /\ Len(ventas) > 0

\* C3: a sale that meets a recipe ingredient with less stock than
\* quantity x units fails and leaves no sale row and no movement row of the
\* request, and the step that fails it changes no committed stock, movement
\* or sale, also when earlier lines of the same sale had been adjusted.
C3_VentaInsuficienteNoDejaRastro ==
    /\ [](\A r \in Req :
            (Hecha(r, "venta") /\ resultado[r] = "insuficiente") =>
                /\ \A k \in 1..Len(ventas) : ventas[k].id /= op[r].venta
                /\ \A k \in 1..Len(movs) : movs[k].venta /= op[r].venta)
    /\ [][\A r \in Req :
            (pc[r] = "ajuste" /\ pc'[r] = "done" /\ resultado'[r] = "insuficiente") =>
                /\ LineaActual(r).cant * op[r].cant > stock[LineaActual(r).ing]
                /\ stock' = stock /\ movs' = movs /\ ventas' = ventas]_vars

\* A sale has failed on its second recipe line, after the first line had
\* been adjusted.
C3_Testigo ==
    \E r \in Req :
        /\ Hecha(r, "venta")
        /\ resultado[r] = "insuficiente"
        /\ hechas[r] >= 1

\* Requests a and b are finished single-line sales on ingredient i, and a was
\* in flight when b began: they ran concurrently, and nothing else has
\* committed since b began.
VentasConcurrentesSobre(a, b, i) ==
    /\ a /= b
    /\ Hecha(a, "venta") /\ Hecha(b, "venta")
    /\ inicio[a].num \in inicio[b].enVuelo
    /\ Len(leidas[a]) = 1 /\ leidas[a][1].ing = i
    /\ Len(leidas[b]) = 1 /\ leidas[b][1].ing = i

\* The magnitude request r's single-line sale asks of its ingredient.
Pedido(r) == leidas[r][1].cant * op[r].cant

\* C4: two concurrent adjustments on one ingredient, each with a negative
\* delta the stock covers alone, together exceeding it: exactly one commits,
\* the other fails for insufficient stock, the final stock is the initial
\* stock minus the successful delta, and exactly one movement is added.
C4_UnaSolaGanaLaCarrera ==
    \A a, b \in Req : \A i \in IngIds :
        LET s0 == inicio[b].stock[i] IN
        (/\ VentasConcurrentesSobre(a, b, i)
         /\ Pedido(a) <= s0 /\ Pedido(b) <= s0
         /\ Pedido(a) + Pedido(b) > s0) =>
            \E g, p \in {a, b} :
                /\ g /= p
                /\ resultado[g] = "ok"
                /\ resultado[p] = "insuficiente"
                /\ stock[i] = s0 - Pedido(g)
                /\ Len(movs) = inicio[b].nmovs + 1
                /\ movs[Len(movs)].venta = op[g].venta

\* Two concurrent sales asked 0.002 each of an ingredient that held 0.003,
\* and both have finished.
C4_Testigo ==
    \E a, b \in Req : \E i \in IngIds :
        /\ VentasConcurrentesSobre(a, b, i)
        /\ Pedido(a) <= inicio[b].stock[i] /\ Pedido(b) <= inicio[b].stock[i]
        /\ Pedido(a) + Pedido(b) > inicio[b].stock[i]

RECURSIVE SumaLineas(_, _)
\* Quantity per unit that the recipe lines s ask of ingredient i.
SumaLineas(s, i) ==
    IF s = <<>> THEN 0
    ELSE (IF Head(s).ing = i THEN Head(s).cant ELSE 0) + SumaLineas(Tail(s), i)

\* The signed delta request r's adjustments apply to ingredient i.
Delta(r, i) ==
    IF op[r].tipo = "entrada" THEN (IF op[r].id = i THEN op[r].cant ELSE 0)
    ELSE IF op[r].tipo = "venta" THEN -(SumaLineas(leidas[r], i) * op[r].cant)
    ELSE 0

\* Requests a and b both adjusted ingredient i and committed, and a was in
\* flight when b began.
AjustesConcurrentesConfirmados(a, b, i) ==
    /\ a /= b
    /\ pc[a] = "done" /\ pc[b] = "done"
    /\ resultado[a] = "ok" /\ resultado[b] = "ok"
    /\ inicio[a].num \in inicio[b].enVuelo
    /\ Delta(a, i) /= 0 /\ Delta(b, i) /= 0

\* No two open transactions hold a write on the same ingredient row.
ExclusionMutua ==
    \A r \in Req : \A i \in Bloqueadas(r) : \A r2 \in Req \ {r} : i \notin Bloqueadas(r2)

\* C5: two concurrent adjustments on one ingredient never interleave their
\* read-modify-write, and when both commit with deltas d1 and d2 the final
\* stock is the initial stock + d1 + d2 and two movements exist.
C5_SinIntercaladoYSumaExacta ==
    /\ ExclusionMutua
    /\ \A a, b \in Req : \A i \in IngIds :
           AjustesConcurrentesConfirmados(a, b, i) =>
               /\ stock[i] = inicio[b].stock[i] + Delta(a, i) + Delta(b, i)
               /\ Len(movs) >= inicio[b].nmovs + 2

\* C6: two concurrent sales never reach a state where each holds a row lock
\* the other is waiting for (the sales take their locks in one global order).
C6_SinEsperaCircular == \A a, b \in Req : ~Interbloqueo(a, b)

\* Positions of the movement rows a step appends.
Nuevos == (Len(movs) + 1)..Len(movs')

\* C7: every committed change of an existing ingredient's stock comes with
\* exactly one appended movement of that ingredient in the same commit, and
\* movements are appended only by the commit of a successful adjustment.
C7_StockSoloCambiaConMovimiento ==
    [][/\ \A i \in ingredientes \cap ingredientes' :
              stock'[i] /= stock[i] =>
                  Cardinality({k \in Nuevos : movs'[k].ing = i}) = 1
       /\ movs' /= movs =>
              \E r \in Req :
                  /\ \/ pc[r] = "ajuste" /\ resultado'[r] = "ok"
                     \/ pc[r] = "entrada_commit" /\ pc'[r] = "entrada_releer"
                  /\ movs' = movs \o txMovs[r]]_vars

\* C8: an entry whose quantity has more than 3 fractional digits is rejected
\* as an invalid quantity, and no movement with such a magnitude is ever
\* committed.
C8_EntradaConCuartoDecimalRechazada ==
    /\ \A r \in Req :
           (Hecha(r, "entrada") /\ ExcedePrecision(op[r].cant)) =>
               resultado[r] = "invalido"
    /\ \A k \in 1..Len(movs) : ~ExcedePrecision(movs[k].cant)

\* C9: the commit of a successful sale of u units whose recipe has n lines
\* appends exactly one sale row and exactly n movement rows, one per recipe
\* ingredient, each of the sale-out kind, referring to the sale, of magnitude
\* q_i x u; each recipe ingredient's stock drops by q_i x u and no other
\* stock changes.
C9_VentaExitosaDescuentaReceta ==
    [][\A r \in Req :
         (op[r].tipo = "venta" /\ pc[r] = "ajuste" /\ pc'[r] = "done"
          /\ resultado'[r] = "ok") =>
            LET n == Len(leidas[r])
                u == op[r].cant
            IN  /\ ventas' = Append(ventas, ventas'[Len(ventas')])
                /\ ventas'[Len(ventas')].id = op[r].venta
                /\ ventas'[Len(ventas')].prod = op[r].id
                /\ ventas'[Len(ventas')].cant = u
                /\ Len(movs') = Len(movs) + n
                /\ SubSeq(movs', 1, Len(movs)) = movs
                /\ \A k \in 1..n :
                       /\ Cardinality({j \in Nuevos : movs'[j].ing = leidas[r][k].ing}) = 1
                       /\ \E j \in Nuevos :
                              movs'[j] = [ing |-> leidas[r][k].ing,
                                          venta |-> op[r].venta,
                                          tipo |-> "SALIDA_VENTA",
                                          cant |-> leidas[r][k].cant * u]
                /\ \A i \in IngIds :
                       stock'[i] = stock[i] - SumaLineas(leidas[r], i) * u]_vars

\* A sale of 2 units of the two-line recipe has committed, and its two
\* movements are in the log.
C9_Testigo ==
    \E r \in Req :
        /\ Hecha(r, "venta") /\ resultado[r] = "ok"
        /\ Len(leidas[r]) = 2 /\ op[r].cant = 2
        /\ Cardinality({k \in 1..Len(movs) : movs[k].venta = op[r].venta}) = 2

\* Request r is a sale of a positive number of units of an existing product
\* that has fetched an empty recipe.
VentaSinReceta(r) ==
    /\ op[r].tipo = "venta"
    /\ op[r].venta /= Nulo
    /\ pc[r] \in {"ajuste", "done"}
    /\ leidas[r] = <<>>

\* C10: a sale of a positive number of units of an existing product whose
\* recipe is empty succeeds: it commits exactly one sale row, appends no
\* movement row and leaves every stock unchanged.
C10_VentaSinRecetaTieneExito ==
    /\ [](\A r \in Req :
            (VentaSinReceta(r) /\ pc[r] = "done") =>
                /\ resultado[r] = "ok"
                /\ Cardinality({k \in 1..Len(ventas) : ventas[k].id = op[r].venta}) = 1
                /\ \A k \in 1..Len(movs) : movs[k].venta /= op[r].venta)
    /\ [][\A r \in Req :
            (VentaSinReceta(r) /\ pc[r] = "ajuste" /\ pc'[r] = "done") =>
                /\ Len(ventas') = Len(ventas) + 1
                /\ movs' = movs
                /\ stock' = stock]_vars

\* A sale of the product without recipe has committed its sale row.
C10_Testigo ==
    \E r \in Req :
        /\ VentaSinReceta(r) /\ pc[r] = "done"
        /\ \E k \in 1..Len(ventas) : ventas[k].id = op[r].venta /\ ventas[k].prod = op[r].id

\* C11: an entry with quantity q > 0 on an existing ingredient is never
\* refused (in particular not for insufficient stock); its commit raises that
\* ingredient's stock by exactly q, appends exactly one movement of magnitude
\* q with the kind the request gave and no sale reference, and leaves every
\* other ingredient's stock unchanged.
C11_EntradaSumaExactamente ==
    [][\A r \in Req :
         /\ (pc[r] = "done" /\ op'[r].tipo = "entrada" /\ inicio'[r] /= inicio[r]
             /\ op'[r].cant > 0 /\ op'[r].id \in ingredientes) =>
                pc'[r] = "entrada_commit"
         /\ (pc[r] = "entrada_commit" /\ pc'[r] /= "entrada_commit") =>
                /\ stock' = [stock EXCEPT ![op[r].id] = @ + op[r].cant]
                /\ movs' = Append(movs, [ing |-> op[r].id, venta |-> Nulo,
                                         tipo |-> op[r].mov, cant |-> op[r].cant])]_vars

\* Request r takes a step.
Mueve(r) == <<pc[r], hechas[r], inicio[r]>>' /= <<pc[r], hechas[r], inicio[r]>>

\* Request r's step is its commit: every write of its transaction reaches
\* the committed rows in this one step, and for a sale they are the sale row
\* and one movement per recipe line.
CommitCompleto(r) ==
    /\ pc[r] \in {"ajuste", "entrada_commit"}
    /\ stock' = [i \in IngIds |-> IF i \in DOMAIN txStock[r] THEN txStock[r][i]
                                  ELSE stock[i]]
    /\ movs' = movs \o txMovs[r]
    /\ ventas' = ventas \o txVentas[r]
    /\ txStock'[r] = <<>> /\ txMovs'[r] = <<>> /\ txVentas'[r] = <<>>
    /\ op[r].tipo = "venta" =>
           /\ Len(txVentas[r]) = 1
           /\ Len(txMovs[r]) = Len(leidas[r])
           /\ hechas[r] = Len(leidas[r])

\* C12: the engine's stock write and movement insert stay in one open
\* transaction and no engine step commits; the committed rows change only in
\* the single commit step of an entry or sale, which applies the sale row,
\* every movement and every stock decrement together, so the committed state
\* never shows a sale without all its movements, a movement of a sale
\* without the sale, or rows of a sale still in flight.
C12_SinAplicacionParcial ==
    /\ [](/\ \A r \in Req :
                DOMAIN txStock[r] = {txMovs[r][k].ing : k \in DOMAIN txMovs[r]}
          /\ \A k \in DOMAIN movs :
                movs[k].venta /= Nulo => \E j \in DOMAIN ventas : ventas[j].id = movs[k].venta
          /\ \A r \in Req :
                (op[r].tipo = "venta" /\ op[r].venta /= Nulo) =>
                    LET nv == Cardinality({j \in DOMAIN ventas : ventas[j].id = op[r].venta})
                        nm == Cardinality({k \in DOMAIN movs : movs[k].venta = op[r].venta})
                    IN  IF pc[r] = "done" /\ resultado[r] = "ok"
                        THEN nv = 1 /\ nm = Len(leidas[r])
                        ELSE nv = 0 /\ nm = 0)
    /\ [][\A r \in Req :
            (op'[r].tipo \in {"venta", "entrada"} /\ Mueve(r)) =>
                \/ dbVars' = dbVars
                \/ CommitCompleto(r)]_vars

\* A sale of the two-line recipe has adjusted its first ingredient and not
\* yet the second, and the committed rows show nothing of it.
C12_Testigo ==
    \E r \in Req :
        /\ pc[r] = "ajuste" /\ hechas[r] = 1 /\ Len(leidas[r]) = 2
        /\ Len(txMovs[r]) = 1 /\ Len(txVentas[r]) = 1
        /\ \A j \in DOMAIN ventas : ventas[j].id /= op[r].venta

\* C13: a sale or adjustment blocked on an ingredient row lock has waited at
\* most the bounded wait: once the bound has passed it is no longer waiting
\* (it has failed with a lock-timeout outcome and been rolled back).
C13_EsperaDeBloqueoAcotada ==
    \A r \in Req :
        (\E i \in IngIds : Espera(r, i)) => espera[r] <= LimiteEspera

\* C14: an adjustment whose rounded new stock would be negative fails with
\* an insufficient-stock error that names the ingredient, the requested
\* magnitude |delta| and the stock available at that moment, and the failing
\* step writes neither a stock nor a movement (a sale of u units of a line
\* needing q with q x u above the stock reports required q x u and the stock).
C14_InsuficienteInformaYNoEscribe ==
    [][\A r \in Req :
         (pc[r] = "ajuste" /\ Mueve(r) /\ hechas[r] < Len(leidas[r])) =>
            LET i == LineaActual(r).ing
                pide == LineaActual(r).cant * op[r].cant
                hay == IF i \in DOMAIN txStock[r] THEN txStock[r][i] ELSE stock[i]
            IN  (i \in ingredientes /\ Redondear(hay - pide) < 0
                 /\ resultado'[r] /= "error_interno") =>
                    /\ pc'[r] = "done"
                    /\ resultado'[r] = "insuficiente"
                    /\ respuesta'[r].status = 400
                    /\ respuesta'[r].detalle =
                           [ing |-> i, requiere |-> pide, disponible |-> hay]
                    /\ dbVars' = dbVars
                    /\ txStock'[r] = <<>> /\ txMovs'[r] = <<>> /\ txVentas'[r] = <<>>]_vars

\* A sale of 2 units of the two-line recipe has failed on the ingredient that
\* held 0.001, reporting required 0.002 and available 0.001.
C14_Testigo ==
    \E r \in Req :
        /\ Hecha(r, "venta") /\ resultado[r] = "insuficiente"
        /\ respuesta[r].detalle = [ing |-> 2, requiere |-> 20, disponible |-> 10]

\* C15: a sale for a product id that does not exist fails with a
\* product-not-found error before any write: the step takes no sale id,
\* writes no sale row, movement row or stock, committed or uncommitted.
C15_ProductoInexistenteNoEscribe ==
    /\ [](\A r \in Req :
            (Hecha(r, "venta") /\ op[r].cant > 0 /\ resultado[r] = "producto_no_encontrado") =>
                /\ op[r].venta = Nulo
                /\ txStock[r] = <<>> /\ txMovs[r] = <<>> /\ txVentas[r] = <<>>)
    /\ [][\A r \in Req :
            (pc[r] = "done" /\ Mueve(r) /\ op'[r].tipo = "venta" /\ op'[r].cant > 0
             /\ op'[r].id \notin productos) =>
                /\ pc'[r] = "done"
                /\ resultado'[r] = "producto_no_encontrado"
                /\ dbVars' = dbVars
                /\ seqVenta' = seqVenta
                /\ txStock' = txStock /\ txMovs' = txMovs /\ txVentas' = txVentas]_vars

\* A sale of product 4, which does not exist, has been refused.
C15_Testigo ==
    \E r \in Req :
        /\ Hecha(r, "venta") /\ resultado[r] = "producto_no_encontrado"
        /\ op[r].id \notin productos

\* C16: an entry for an ingredient id that does not exist ends with a
\* not-found outcome of status 404, which no bad-input or insufficient-stock
\* outcome of the route carries, and changes no stock and no movement.
C16_EntradaSinIngredienteEs404 ==
    /\ [](\A r \in Req :
            Hecha(r, "entrada") =>
                /\ resultado[r] = "no_encontrado" => respuesta[r].status = 404
                /\ resultado[r] \in {"invalido", "insuficiente"} => respuesta[r].status = 400)
    /\ [][\A r \in Req :
            (pc[r] = "done" /\ Mueve(r) /\ op'[r].tipo = "entrada"
             /\ resultado'[r] = "no_encontrado") =>
                dbVars' = dbVars /\ txStock' = txStock /\ txMovs' = txMovs]_vars

\* Sequence s is an initial part of sequence t.
EsPrefijo(s, t) == Len(s) <= Len(t) /\ SubSeq(t, 1, Len(s)) = s

\* C17: no step of an entry, a sale or an ingredient or product create or
\* update changes or removes a committed movement or sale row: the committed
\* rows of every state are an initial part of those of the next state.
C17_MovimientosYVentasSoloCrecen ==
    [][EsPrefijo(movs, movs') /\ EsPrefijo(ventas, ventas')]_vars

\* A sale and its movements were committed, and a product update that began
\* afterwards has succeeded with those rows still in place.
C17_Testigo ==
    /\ Len(ventas) >= 1 /\ Len(movs) >= 1
    /\ movs[1].venta = ventas[1].id
    /\ \E r \in Req :
           /\ Hecha(r, "actualizar_producto") /\ resultado[r] = "ok"
           /\ inicio[r].nmovs >= 1

\* The sale rows of a state: the committed ones and those of open
\* transactions.
FilasDeVenta ==
    {ventas[j] : j \in DOMAIN ventas}
    \cup UNION {{txVentas[r][j] : j \in DOMAIN txVentas[r]} : r \in Req}

\* C18: a sale row stores as unit price the product's price as the sale read
\* it and as total amount that unit price times the units sold; the row is
\* committed as inserted, and no later step, a product's price update
\* included, changes a committed sale row.
C18_VentaGuardaPrecioDelMomento ==
    /\ [](\A v \in FilasDeVenta : v.monto = v.precio * v.cant)
    /\ [][/\ \A r \in Req :
                (pc[r] = "done" /\ pc'[r] = "receta") =>
                    txVentas'[r] = <<[id |-> op'[r].venta, prod |-> op'[r].id,
                                      cant |-> op'[r].cant,
                                      precio |-> precio[op'[r].id],
                                      monto |-> precio[op'[r].id] * op'[r].cant]>>
          /\ EsPrefijo(ventas, ventas')
          /\ ventas' /= ventas =>
                \E r \in Req : pc[r] = "ajuste" /\ ventas' = ventas \o txVentas[r]]_vars

\* A sale of product 2 was committed at the price 1.00, and the product's
\* price has been updated since.
C18_Testigo ==
    \E j \in DOMAIN ventas :
        /\ ventas[j].prod = 2 /\ ventas[j].precio = 100
        /\ ventas[j].monto = 100 * ventas[j].cant
        /\ precio[2] /= 100

\* Connections request r holds: acquired and not yet released.
Prestadas(r) == conexiones[r].adq - conexiones[r].lib

\* C19: a request never releases a connection it has not acquired nor holds
\* two at once, it holds exactly one while its with-block is open, and a
\* finished request, whatever way it ended, has released every connection it
\* acquired and left no uncommitted write or row lock; so when all requests
\* have finished no connection is checked out.
C19_ConexionesSiempreDevueltas ==
    \A r \in Req :
        /\ Prestadas(r) \in {0, 1}
        /\ pc[r] \in {"receta", "ajuste", "entrada_commit"} => Prestadas(r) = 1
        /\ pc[r] \in {"done", "entrada_releer"} =>
               /\ Prestadas(r) = 0
               /\ txStock[r] = <<>> /\ txMovs[r] = <<>> /\ txVentas[r] = <<>>

\* Both workers are idle: one finished a sale that failed with a ValueError
\* after it had adjusted a line, the other an entry that used its two
\* connections.
C19_Testigo ==
    \E a, b \in Req :
        /\ Hecha(a, "venta") /\ resultado[a] = "insuficiente" /\ hechas[a] >= 1
        /\ conexiones[a] = [adq |-> 1, lib |-> 1]
        /\ Hecha(b, "entrada") /\ resultado[b] = "ok"
        /\ conexiones[b] = [adq |-> 2, lib |-> 2]

\* C20: the price a sale stores and the recipe it deducts belong to one and
\* the same committed version of the product, also when a product update
\* with a recipe list commits while the sale is in flight.
C20_VentaUsaUnaSolaVersion ==
    [][\A r \in Req :
         (pc[r] = "receta" /\ pc'[r] = "ajuste") =>
            Version(txVentas[r][1].precio, leidas'[r]) \in versiones[op[r].id]]_vars

----------------------------------------------------------------------------
(* Product and recipe writes *)

\* C21: a successful product update that carries a recipe list leaves the
\* product with exactly the lines of that list (none when the list is
\* empty), and one that carries no list leaves the recipe as it was.
C21_RecetaReemplazadaPorCompleto ==
    [][\A r \in Req :
         (pc[r] = "producto_commit" /\ pc'[r] = "done" /\ resultado'[r] = "ok") =>
            LET b == txProd[r][1].cuerpo
            IN  receta'[b.id] = IF b.conReceta THEN b.receta ELSE receta[b.id]]_vars

\* The request is answered 400 without a connection and without a change of
\* any row, sequence or open transaction.
Rechazada(r) ==
    /\ pc'[r] = "done"
    /\ resultado'[r] = "invalido"
    /\ respuesta'[r].status = 400
    /\ conexiones'[r] = SinConexion
    /\ UNCHANGED <<dbVars, productos, precio, receta, versiones, seqProd, seqIng,
                   seqVenta, txStock, txMovs, txVentas, txProd>>

\* A stock value breaks a rule of the ingredient: not negative, at most 3
\* fractional digits, at most the maximum.
ViolaStock(s) == s < 0 \/ ExcedePrecision(s) \/ s > StockMaximo

\* The response lists each rule the stock value breaks.
ListaStock(r, s) ==
    /\ s < 0 => "no puede ser negativo" \in respuesta'[r].errores
    /\ ExcedePrecision(s) => "excede la precision decimal" \in respuesta'[r].errores
    /\ s > StockMaximo => "excede el valor maximo" \in respuesta'[r].errores

\* A product body breaks a rule of the price or of a recipe line.
ViolaProducto(b) ==
    \/ b.conPrecio /\ (b.precio < 0 \/ b.precio > PrecioMaximo)
    \/ /\ b.conReceta
       /\ \E k \in DOMAIN b.receta :
              \/ b.receta[k].cant <= 0
              \/ ExcedePrecision(b.receta[k].cant)
              \/ b.receta[k].cant > CantidadMaxima

\* The response lists each rule the product body breaks, line by line.
ListaProducto(r, b) ==
    /\ (b.conPrecio /\ b.precio < 0) => "precio negativo" \in respuesta'[r].errores
    /\ (b.conPrecio /\ b.precio > PrecioMaximo) =>
           "precio maximo" \in respuesta'[r].errores
    /\ b.conReceta =>
           \A k \in DOMAIN b.receta :
               /\ b.receta[k].cant <= 0 =>
                      <<k, "debe ser positiva">> \in respuesta'[r].errores
               /\ ExcedePrecision(b.receta[k].cant) =>
                      <<k, "excede precision">> \in respuesta'[r].errores
               /\ b.receta[k].cant > CantidadMaxima =>
                      <<k, "excede el maximo">> \in respuesta'[r].errores

\* C22: a create or update request for an ingredient or a product whose
\* payload breaks any validation rule is answered 400 before any storage
\* call (no connection acquired, no row, sequence or transaction touched),
\* and the answer lists every rule the payload breaks, not only the first.
C22_InvalidoAntesDelAlmacenYCompleto ==
    [][\A r \in Req :
         /\ \A s \in StocksCrear :
                (CrearIngrediente(r, s) /\ ViolaStock(s)) =>
                    Rechazada(r) /\ ListaStock(r, s)
         /\ \A a \in PeticionesActualizar :
                (ActualizarIngrediente(r, a[1], a[2]) /\ ViolaStock(a[2])) =>
                    Rechazada(r) /\ ListaStock(r, a[2])
         /\ \A b \in PeticionesCrearProducto :
                (CrearProducto(r, b) /\ ViolaProducto(b)) =>
                    Rechazada(r) /\ ListaProducto(r, b)
         /\ \A b \in PeticionesProducto \cup PeticionesReceta :
                (ActualizarProducto(r, b) /\ ViolaProducto(b)) =>
                    Rechazada(r) /\ ListaProducto(r, b)]_vars

\* Witness of C22: an ingredient create and a product create, each breaking
\* two rules at once, have both been rejected with both violations listed
\* and without a connection.
C22_Testigo ==
    \E r, q \in Req :
        /\ Hecha(r, "crear_ingrediente") /\ resultado[r] = "invalido"
        /\ respuesta[r].errores =
               {"no puede ser negativo", "excede la precision decimal"}
        /\ conexiones[r] = SinConexion
        /\ Hecha(q, "crear_producto") /\ resultado[q] = "invalido"
        /\ respuesta[q].errores =
               {<<1, "debe ser positiva">>, <<1, "excede precision">>}
        /\ conexiones[q] = SinConexion

----------------------------------------------------------------------------
(* The entry's response *)

\* C23: the stock a successful entry returns is the stock the entry found
\* plus its quantity (of at most 3 fractional digits), also when other
\* adjustments of the same ingredient commit concurrently.
C23_EntradaDevuelveSuPropioEstado ==
    [][\A r \in Req :
         (/\ pc[r] = "entrada_releer" /\ pc'[r] = "done"
          /\ resultado'[r] = "ok"
          /\ ~ExcedePrecision(op[r].cant)) =>
            respuesta'[r].stock = inicio[r].stock[op[r].id] + op[r].cant]_vars

----------------------------------------------------------------------------
(* Deleting referenced rows *)

\* Every committed movement refers to an ingredient row and every committed
\* sale to a product row.
ReferenciasVivas ==
    /\ \A k \in DOMAIN movs : movs[k].ing \in ingredientes
    /\ \A k \in DOMAIN ventas : ventas[k].prod \in productos

\* C24: a delete of an ingredient that a committed movement refers to, or of
\* a product that a committed sale refers to, is answered 409 and leaves the
\* row, its stock or price and recipe, and every movement and sale in place;
\* so no committed movement or sale ever refers to a missing row.
C24_BorradoDeReferenciadoBloqueado ==
    /\ []ReferenciasVivas
    /\ [][\A r \in Req :
            /\ \A i \in PeticionesEliminarIngrediente :
                   (EliminarIngrediente(r, i) /\ TieneMovimientos(i)) =>
                       /\ resultado'[r] = "conflicto"
                       /\ respuesta'[r].status = 409
                       /\ UNCHANGED <<dbVars, catVars>>
            /\ \A p \in PeticionesEliminarProducto :
                   (EliminarProducto(r, p)
                    /\ \E k \in DOMAIN ventas : ventas[k].prod = p) =>
                       /\ resultado'[r] = "conflicto"
                       /\ respuesta'[r].status = 409
                       /\ UNCHANGED <<dbVars, catVars>>]_vars

\* Witness of C24: an entry on the ingredient that no recipe uses has
\* committed its movement, and a delete of that ingredient was then answered
\* 409 with the row still there.
C24_Testigo ==
    \E r \in Req :
        /\ Hecha(r, "eliminar_ingrediente") /\ op[r].id = 3
        /\ resultado[r] = "conflicto" /\ respuesta[r].status = 409
        /\ ~EnReceta(3)
        /\ TieneMovimientos(3) /\ 3 \in ingredientes

----------------------------------------------------------------------------
(* Bound of the stock *)

\* C25: in every committed state reached by entries (and sales), the stock of
\* every ingredient is at most the declared maximum and has at most 3
\* fractional digits; an entry that would pass the maximum commits no larger
\* value.
C25_StockDentroDelMaximo ==
    \A i \in ingredientes : stock[i] <= StockMaximo /\ ~ExcedePrecision(stock[i])

----------------------------------------------------------------------------
(* Kind and direction of a movement *)

\* C26: every committed movement of the sale-out kind refers to a committed
\* sale (it was written by a sale's stock decrease), and no movement written
\* by an entry, which carries no sale, has the sale-out kind.
C26_TipoDeterminaDireccion ==
    \A k \in DOMAIN movs :
        movs[k].tipo = "SALIDA_VENTA" <=>
            (movs[k].venta /= Nulo
             /\ \E j \in DOMAIN ventas : ventas[j].id = movs[k].venta)

----------------------------------------------------------------------------
(* Product writes are all-or-nothing *)

\* A recipe line of the body names an ingredient that has no row.
FaltaIngrediente(b) ==
    b.conReceta /\ \E k \in DOMAIN b.receta : b.receta[k].ing \notin ingredientes

\* The request is answered 400 for the missing ingredient and leaves no
\* product row, price, recipe line or open transaction changed.
NadaEscrito(r) ==
    /\ pc'[r] = "done"
    /\ resultado'[r] = "ingrediente_no_existe"
    /\ respuesta'[r].status = 400
    /\ UNCHANGED <<productos, precio, receta, versiones, txProd>>

\* C27: a create_producto or update_producto whose valid body has a recipe
\* line with an ingredient that does not exist fails, and nothing of it is
\* committed: no product row and no recipe line on create; on update the
\* product's price and recipe stay as they were.
C27_ProductoTodoONada ==
    [][\A r \in Req :
         /\ \A b \in PeticionesCrearProducto :
                (CrearProducto(r, b) /\ ~ViolaProducto(b) /\ FaltaIngrediente(b)) =>
                    NadaEscrito(r)
         /\ \A b \in PeticionesProducto \cup PeticionesReceta :
                (/\ ActualizarProducto(r, b)
                 /\ ~ViolaProducto(b) /\ b.id \in productos
                 /\ FaltaIngrediente(b)) =>
                    NadaEscrito(r)]_vars

\* Witness of C27: a product update and a product create that name the
\* missing ingredient 3 have both failed; product 1 has its two recipe lines
\* and no product was added.
C27_Testigo ==
    \E r, q \in Req :
        /\ Hecha(r, "actualizar_producto") /\ op[r].id = 1
        /\ resultado[r] = "ingrediente_no_existe"
        /\ Hecha(q, "crear_producto")
        /\ resultado[q] = "ingrediente_no_existe"
        /\ receta[1] = <<[ing |-> 1, cant |-> 10], [ing |-> 2, cant |-> 10]>>
        /\ productos = {1, 2, 3}
        /\ 3 \notin ingredientes

====
